---- MODULE Spec2Model ----
(***************************************************************************)
(* Client-side search and filter layer of the "consulta" catalogue:        *)
(*   - search-filter.js: the primary filter bar (fuzzy search box, three   *)
(*     single-value selects, reset button, result counter);                *)
(*   - the multi-select Pagefind bridge (the variant that filters the      *)
(*     page with OR semantics and opens a deep-search overlay).            *)
(* Both scripts run on one page and share its DOM.                         *)
(***************************************************************************)
EXTENDS Integers, Sequences, FiniteSets, TLC

VARIABLES
  dom,                \* the rendered .ato-line elements, in document order
  allAtos,            \* search-filter.js: records extracted at setup
  currentFilters,     \* search-filter.js: {search, orgao, tipo, ano}
  searchTimeout,      \* search-filter.js: armed debounce callbacks
  inputValue,         \* #searchInput .value
  selectValue,        \* .value of #filterOrgao, #filterTipo, #filterAno
  hiddenByFilter,     \* .ato-line elements carrying class hidden-by-filter
  suborgHidden,       \* .suborg elements with display none
  groupHidden,        \* .org-group elements with display none
  resultInfo,         \* the .result-info region and its #resultCount child
  bridge,             \* the bridge script: absent, or booted (start-up delay over)
  bridgeAtos,         \* bridge: records extracted by extractAtosData
  activeMultiFilters, \* bridge: category -> set of selected values
  lastOp,             \* the handler that ran last
  threw,              \* whether that handler ended by an uncaught exception
  lastKey,            \* the input value at the last input event
  pfReady,            \* bridge: the index reported ready
  pagefindInitialized,\* bridge: openModal has seen the index ready
  deepCount,          \* bridge: generation counter of performSearch
  calls,              \* bridge: the openModal calls in flight, in call order
  overlayBody,        \* #pf-body content and the call that wrote it
  overlayCount,       \* .pf-header .count content and the call that wrote it
  fn,                 \* the extraction function applied to a text, if any
  fnArg,              \* the text it was applied to
  fnOut,              \* what it returned
  listenersAttached,  \* search-filter.js: the flag of that name
  attachCount,        \* times its handlers are attached to the present controls
  watcherPending,     \* a MutationObserver callback is queued
  page,               \* the #searchInput and .filters-row elements in the document
  buttonInDocument,   \* whether #pf-trigger is in the document
  currentSearchInput, \* listener bridge: the search box it holds (0: null)
  pfListenersAttached,\* listener bridge: its listenersAttached flag
  attached,           \* listener bridge: times its handler is registered, per target
  redundant,          \* an addEventListener call found the handler registered
  fired,              \* times the input handler ran for the last input event
  badges,             \* assets bridge: the values shown as .filter-badge, per category
  previewTimer,       \* assets bridge: armed preview callbacks
  lastPreview,        \* assets bridge: lastPreviewQuery, lastPreviewFiltersKey
  previews,           \* assets bridge: updateBadge calls waiting for the index
  badgeCount,         \* assets bridge: the number on the trigger button (0: none)
  badgeBy,            \* the path of updateBadge that wrote that number last
  sent,               \* the query the last step sent to the index, if it sent one
  picked,             \* the value selected last on a managed select, and the set before
  twice               \* set by the step that selects that value a second time

filterVars == << dom, allAtos, currentFilters, searchTimeout, inputValue,
                 selectValue, hiddenByFilter, suborgHidden, groupHidden,
                 resultInfo, bridge, bridgeAtos, activeMultiFilters, lastOp,
                 threw, lastKey >>
deepVars == << pfReady, pagefindInitialized, deepCount, calls, overlayBody,
               overlayCount >>
textVars == << fn, fnArg, fnOut >>
listenVars == << page, buttonInDocument, currentSearchInput, pfListenersAttached,
                attached, redundant, fired >>
watchVars == << listenersAttached, attachCount, watcherPending, listenVars >>
previewVars == << badges, previewTimer, lastPreview, previews, badgeCount, badgeBy,
                 sent, picked, twice >>
auxVars == << textVars, watchVars, previewVars >>
vars == << filterVars, deepVars, auxVars >>

(***************************************************************************)
(* Bounds.                                                                 *)
(***************************************************************************)
NumAtos == 3
MaxCalls == 3
MaxHits == 1
MaxTimers == 2
MaxPreviews == 1
MaxRegens == 2
MaxRequests == 2

Atos == 1..NumAtos

(***************************************************************************)
(* Text.  A string the code trims is a sequence of one-character strings.  *)
(***************************************************************************)
RECURSIVE TrimStart(_)
TrimStart(s) ==
  IF s # << >> /\ Head(s) = " " THEN TrimStart(Tail(s)) ELSE s

RECURSIVE TrimEnd(_)
TrimEnd(s) ==
  IF s # << >> /\ s[Len(s)] = " " THEN TrimEnd(SubSeq(s, 1, Len(s) - 1)) ELSE s

NoTrim(s) == s

Trim(s) == TrimEnd(TrimStart(s))

\* what the user can have in the search box
InputValues == { << >>, <<" ">>, <<" ", "a">>, <<"b", " ">> }

(***************************************************************************)
(* Text, character by character.  A character outside ASCII is written as  *)
(* a letter and a mark: "a'" "c," "a~" "i'" "o'" are accented letters,     *)
(* "^o" is the ordinal indicator and "^0" the degree sign.                 *)
(***************************************************************************)
UpperCase ==
  << "A", "B", "C", "D", "E", "F", "G", "H", "I", "J", "K", "L", "M",
     "N", "O", "P", "Q", "R", "S", "T", "U", "V", "W", "X", "Y", "Z",
     "A'", "C,", "A~", "I'", "O'" >>

LowerCase ==
  << "a", "b", "c", "d", "e", "f", "g", "h", "i", "j", "k", "l", "m",
     "n", "o", "p", "q", "r", "s", "t", "u", "v", "w", "x", "y", "z",
     "a'", "c,", "a~", "i'", "o'" >>

Digits == {"0", "1", "2", "3", "4", "5", "6", "7", "8", "9"}

\* \w of a regular expression without the u flag: ASCII only
WordChars ==
  { UpperCase[k] : k \in 1..26 } \cup { LowerCase[k] : k \in 1..26 }
    \cup Digits \cup {"_"}

LowerChar(c) ==
  IF \E k \in DOMAIN UpperCase : UpperCase[k] = c
  THEN LowerCase[CHOOSE k \in DOMAIN UpperCase : UpperCase[k] = c]
  ELSE c

toLowerCaseNone(s) == s

\* String.prototype.toLowerCase
toLowerCase(s) == [i \in 1..Len(s) |-> LowerChar(s[i])]

\* String.prototype.includes
Includes(s, t) ==
  \E i \in 0..(Len(s) - Len(t)) : SubSeq(s, i + 1, i + Len(t)) = t

\* the character at position p, "" where there is none
At(t, p) == IF p \in DOMAIN t THEN t[p] ELSE ""

(***************************************************************************)
(* Extraction.  The records of the page model carry their values as names  *)
(* (labels without their diacritics); LabelText gives a label's spelling.  *)
(***************************************************************************)
tipos ==
  << "Constituicao", "Lei Complementar", "Lei", "Decreto-Lei", "Decreto",
     "Decreto Judiciario", "Resolucao", "Portaria", "Instrucao Normativa",
     "Provimento", "Ato Normativo", "Ato Conjunto", "Oficio-Circular",
     "Codigo" >>

bridgeTipos ==
  << "Constituicao", "Lei Complementar", "Lei", "Decreto-Lei", "Decreto",
     "Resolucao", "Portaria", "Instrucao Normativa", "Provimento",
     "Ato Normativo", "Ato Conjunto", "Codigo" >>

LabelText(label) ==
  CASE label = "Constituicao" ->
         <<"C", "o", "n", "s", "t", "i", "t", "u", "i", "c,", "a~", "o">>
    [] label = "Lei Complementar" ->
         <<"L", "e", "i", " ", "C", "o", "m", "p", "l", "e", "m", "e", "n",
           "t", "a", "r">>
    [] label = "Lei" ->
         <<"L", "e", "i">>
    [] label = "Decreto-Lei" ->
         <<"D", "e", "c", "r", "e", "t", "o", "-", "L", "e", "i">>
    [] label = "Decreto" ->
         <<"D", "e", "c", "r", "e", "t", "o">>
    [] label = "Decreto Judiciario" ->
         <<"D", "e", "c", "r", "e", "t", "o", " ", "J", "u", "d", "i", "c",
           "i", "a'", "r", "i", "o">>
    [] label = "Resolucao" ->
         <<"R", "e", "s", "o", "l", "u", "c,", "a~", "o">>
    [] label = "Portaria" ->
         <<"P", "o", "r", "t", "a", "r", "i", "a">>
    [] label = "Instrucao Normativa" ->
         <<"I", "n", "s", "t", "r", "u", "c,", "a~", "o", " ", "N", "o", "r",
           "m", "a", "t", "i", "v", "a">>
    [] label = "Provimento" ->
         <<"P", "r", "o", "v", "i", "m", "e", "n", "t", "o">>
    [] label = "Ato Normativo" ->
         <<"A", "t", "o", " ", "N", "o", "r", "m", "a", "t", "i", "v", "o">>
    [] label = "Ato Conjunto" ->
         <<"A", "t", "o", " ", "C", "o", "n", "j", "u", "n", "t", "o">>
    [] label = "Oficio-Circular" ->
         <<"O", "f", "i'", "c", "i", "o", "-", "C", "i", "r", "c", "u", "l",
           "a", "r">>
    [] label = "Codigo" ->
         <<"C", "o'", "d", "i", "g", "o">>

\* title.toLowerCase().includes(tipo.toLowerCase()), for every label
LabelsIn(title) ==
  { tipos[k] : k \in { j \in DOMAIN tipos :
      Includes(toLowerCase(title), toLowerCase(LabelText(tipos[j]))) } }

\* for (let tipo of list) if (title includes tipo) return tipo; return 'Outro'
FirstLabel(list, labels) ==
  LET found == { k \in 1..Len(list) : list[k] \in labels }
  IN  IF found = {} THEN "Outro"
      ELSE list[CHOOSE k \in found : \A j \in found : k <= j]

extractTipoAto(labels) == FirstLabel(tipos, labels)

bridgeExtractTipoAto(labels) == FirstLabel(bridgeTipos, labels)

(***************************************************************************)
(* extractAno.  The first expression is                                    *)
(*   /[n^o^0]\s*[\d.]+\/(\d{4})|[\(\[](\d{4})[\)\]]/                       *)
(* and the second /\b(19\d{2}|20\d{2})\b/.                                 *)
(***************************************************************************)
Markers == {"n", "^o", "^0"}

RECURSIVE SkipSpaces(_, _)
SkipSpaces(t, p) == IF At(t, p) = " " THEN SkipSpaces(t, p + 1) ELSE p

RECURSIVE SkipNumber(_, _)
SkipNumber(t, p) ==
  IF At(t, p) \in Digits \cup {"."} THEN SkipNumber(t, p + 1) ELSE p

\* (\d{4}) at position p: the four digits, or << >>
FourDigitsAt(t, p) ==
  IF p >= 1 /\ p + 3 <= Len(t) /\ \A i \in p..(p + 3) : t[i] \in Digits
  THEN SubSeq(t, p, p + 3)
  ELSE << >>

\* the first alternative tried at position p: its capture, or << >>
MarkedYearAt(t, p) ==
  LET q == SkipSpaces(t, p + 1)
      r == SkipNumber(t, q)
  IN  IF At(t, p) \in Markers /\ r > q /\ At(t, r) = "/"
      THEN FourDigitsAt(t, r + 1)
      ELSE << >>

\* the second alternative tried at position p: its capture, or << >>
BracketYearAt(t, p) ==
  IF At(t, p) \in {"(", "["} /\ At(t, p + 5) \in {")", "]"}
  THEN FourDigitsAt(t, p + 1)
  ELSE << >>

NoPatternYear(t) == << >>

\* title.match(first expression): match[1] || match[2], or << >>
PatternYear(t) ==
  LET ps == { p \in DOMAIN t :
                MarkedYearAt(t, p) # << >> \/ BracketYearAt(t, p) # << >> }
  IN  IF ps = {} THEN << >>
      ELSE LET p == CHOOSE x \in ps : \A y \in ps : x <= y
           IN  IF MarkedYearAt(t, p) # << >> THEN MarkedYearAt(t, p)
               ELSE BracketYearAt(t, p)

\* the second expression tried at position p
BareYearAt(t, p) ==
  LET y == FourDigitsAt(t, p)
  IN  IF /\ y # << >>
         /\ SubSeq(y, 1, 2) \in { <<"1", "9">>, <<"2", "0">> }
         /\ At(t, p - 1) \notin WordChars
         /\ At(t, p + 4) \notin WordChars
      THEN y
      ELSE << >>

extractAno(title) ==
  LET ps == { p \in DOMAIN title : BareYearAt(title, p) # << >> }
  IN  IF PatternYear(title) # << >> THEN PatternYear(title)
      ELSE IF ps # {}
      THEN BareYearAt(title, CHOOSE x \in ps : \A y \in ps : x <= y)
      ELSE << >>

(***************************************************************************)
(* normalizeOrgao.                                                         *)
(***************************************************************************)
txtFederal == <<"F", "e", "d", "e", "r", "a", "l">>
txtCNJ == <<"C", "N", "J">>
txtTJPR == <<"T", "J", "P", "R">>
txtCorregedoria ==
  <<"C", "o", "r", "r", "e", "g", "e", "d", "o", "r", "i", "a">>
txtLegislacaoFederal ==
  <<"L", "e", "g", "i", "s", "l", "a", "c,", "a~", "o", " ", "F", "e", "d",
    "e", "r", "a", "l">>

normalizeOrgaoShifted(orgao) ==
  LET normalized == Trim(toLowerCase(orgao))
  IN  IF Includes(normalized, toLowerCase(txtFederal)) THEN txtCNJ
      ELSE IF Includes(normalized, toLowerCase(txtCNJ)) THEN txtTJPR
      ELSE orgao

normalizeOrgao(orgao) ==
  LET normalized == Trim(toLowerCase(orgao))
  IN  IF Includes(normalized, <<"f", "e", "d", "e", "r", "a", "l">>)
      THEN txtFederal
      ELSE IF Includes(normalized, <<"c", "n", "j">>) THEN txtCNJ
      ELSE IF Includes(normalized, <<"t", "j", "p", "r">>) THEN txtTJPR
      ELSE IF \/ Includes(normalized, <<"p", "a", "r", "a", "n", "a'">>)
              \/ Includes(normalized, <<"p", "a", "r", "a", "n", "a">>)
      THEN txtTJPR
      ELSE orgao

\* the h2 text of an .org-group
Headings ==
  [ g \in {1, 2} |-> IF g = 1 THEN txtLegislacaoFederal ELSE txtCorregedoria ]

\* the name under which the page model carries an issuing-body value
Spell(s) ==
  CASE s = txtFederal -> "Federal"
    [] s = txtCNJ -> "CNJ"
    [] s = txtTJPR -> "TJPR"
    [] s = txtCorregedoria -> "Corregedoria"
    [] s = txtLegislacaoFederal -> "Legislacao Federal"

(***************************************************************************)
(* The texts the extraction functions are applied to: a head, a middle and *)
(* a tail.                                                                 *)
(***************************************************************************)
Heads ==
  { <<>>,
    <<"L", "e", "i", " ">>,
    <<"L", "e", "i", " ", "C", "o", "m", "p", "l", "e", "m", "e", "n", "t",
      "a", "r", " ">>,
    <<"D", "e", "c", "r", "e", "t", "o", "-", "L", "e", "i", " ">>,
    <<"D", "e", "c", "r", "e", "t", "o", " ", "J", "u", "d", "i", "c", "i",
      "a'", "r", "i", "o", " ">>,
    <<"D", "E", "C", "R", "E", "T", "O", " ">>,
    <<"R", "e", "s", "o", "l", "u", "c,", "a~", "o", " ", "1", "2", " ">>,
    <<"T", "r", "i", "b", "u", "n", "a", "l", " ", "d", "e", " ", "J", "u",
      "s", "t", "i", "c,", "a", " ", "d", "o", " ", "P", "a", "r", "a", "n",
      "a'">>,
    <<"J", "u", "s", "t", "i", "c,", "a", " ", "F", "e", "d", "e", "r", "a",
      "l", " ">>,
    <<"c", "n", "j", " ">>,
    <<"T", "J", "P", "R">>,
    <<" ", "C", "o", "r", "r", "e", "g", "e", "d", "o", "r", "i", "a", " ">>,
    <<"P", "A", "R", "A", "N", "A'">>,
    <<"P", "a", "r", "a", "n", "a", " ", "2", "0", "2", "1", " ">> }

Middles ==
  { <<>>,
    <<"n", "^o", " ", "4", "5", "/", "1", "9", "8", "5">>,
    <<"n", ".", " ", "8", ".", "1", "1", "2", "/", "1", "9", "9", "0">>,
    <<"(", "2", "0", "1", "9", ")">>,
    <<"[", "1", "9", "8", "5", "]">>,
    <<"d", "e", " ", "2", "0", "2", "0">>,
    <<"1", "2", "3", "4", "5", "/">>,
    <<"x", "2", "0", "2", "1">>,
    <<"n", "^0", " ", "7", "/", "9", "8">> }

Tails ==
  { <<>>,
    <<" ", "F", "e", "d", "e", "r", "a", "l">>,
    <<" ", "d", "e", " ", "1", "9", "9", "9">>,
    <<" ", "(", "2", "0", "0", "3", ")">>,
    <<"1">> }

Texts == { h \o m \o t : h \in Heads, m \in Middles, t \in Tails }

\* the kinds of result line a page can be made of
LineKinds ==
  << [grp |-> 1, sub |-> 1, labels |-> {"Lei"}, ano |-> "2020",
      hits |-> {<<"a">>}],
     [grp |-> 1, sub |-> 0, labels |-> {"Decreto"}, ano |-> "2019",
      hits |-> {<<"b">>}],
     [grp |-> 2, sub |-> 1, labels |-> {"Lei Complementar", "Lei"}, ano |-> "",
      hits |-> {<<"a">>, <<"b">>}],
     [grp |-> 2, sub |-> 1, labels |-> {"Oficio-Circular"}, ano |-> "2020",
      hits |-> {}] >>

AtoLines == { LineKinds[k] : k \in DOMAIN LineKinds }

\* the pages of the filter bar alone: any lines in any order
Pages == [Atos -> AtoLines]

\* the pages of the bar with the bridge: the kinds in turn, from any start
BridgePages ==
  { [i \in Atos |-> LineKinds[((i + k) % Len(LineKinds)) + 1]] :
      k \in DOMAIN LineKinds }

extractAtos(d) ==
  [ i \in DOMAIN d |->
      [index |-> i, hits |-> d[i].hits,
       orgao |-> Spell(normalizeOrgao(Headings[d[i].grp])),
       tipo |-> extractTipoAto(d[i].labels), ano |-> d[i].ano] ]

extractAtosData(d) ==
  [ i \in DOMAIN d |->
      [index |-> i, hits |-> d[i].hits,
       orgao |-> Spell(normalizeOrgao(Headings[d[i].grp])),
       tipo |-> bridgeExtractTipoAto(d[i].labels), ano |-> d[i].ano] ]

(***************************************************************************)
(* The DOM containers.                                                     *)
(***************************************************************************)
Groups == { dom[i].grp : i \in Atos }
Suborgs == { <<dom[i].grp, dom[i].sub>> : i \in { j \in Atos : dom[j].sub # 0 } }
LinesOfGroup(g) == { i \in Atos : dom[i].grp = g }
LinesOfSuborg(s) == { i \in Atos : <<dom[i].grp, dom[i].sub>> = s }

\* updateSectionVisibility, for the sub-groups and for the outer groups
SuborgsToHide(hidden) == { s \in Suborgs : LinesOfSuborg(s) \subseteq hidden }
GroupsToHide(hidden) == { g \in Groups : LinesOfGroup(g) \subseteq hidden }

\* the message updateResultCount writes
ResultCountMessage(count, total) ==
  IF count = total
  THEN [cls |-> "result-count-all", shown |-> total, total |-> total]
  ELSE [cls |-> "result-count-filtered", shown |-> count, total |-> total]

(***************************************************************************)
(* search-filter.js                                                        *)
(***************************************************************************)
Categories == {"orgao", "tipo", "ano"}

NoFilters == [search |-> << >>, orgao |-> "", tipo |-> "", ano |-> ""]

FuseSearchAll(query) == Atos

\* fuse.search(query): the records the index returns
FuseSearch(query) == { i \in Atos : query \in allAtos[i].hits }

ByCategoryLiteral(cands, f, cat) ==
  { i \in cands : allAtos[i][cat] = f[cat] }

ByCategory(cands, f, cat) ==
  IF f[cat] # "" THEN { i \in cands : allAtos[i][cat] = f[cat] } ELSE cands

FilteredAtosNoAno(f) ==
  LET bySearch == IF f.search # << >> THEN FuseSearch(f.search) ELSE Atos
      byOrgao == ByCategory(bySearch, f, "orgao")
  IN  ByCategory(byOrgao, f, "tipo")

\* applyFilters, lines 323-342: the indexes of filteredAtos
FilteredAtos(f) ==
  LET bySearch == IF f.search # << >> THEN FuseSearch(f.search) ELSE Atos
      byOrgao == ByCategory(bySearch, f, "orgao")
      byTipo == ByCategory(byOrgao, f, "tipo")
  IN  ByCategory(byTipo, f, "ano")

\* applyFilters, lines 344-349.  updateResultCount raises a TypeError when
\* #resultCount is gone, and updateSectionVisibility is then never reached.
applyFilters(f) ==
  LET filtered == FilteredAtos(f)
      hidden == Atos \ filtered
  IN  /\ hiddenByFilter' = hidden
      /\ IF resultInfo.hasResultCount
         THEN /\ resultInfo' = [resultInfo EXCEPT
                     !.msg = ResultCountMessage(Cardinality(filtered), NumAtos)]
              /\ suborgHidden' = SuborgsToHide(hidden)
              /\ groupHidden' = GroupsToHide(hidden)
              /\ threw' = FALSE
         ELSE /\ UNCHANGED << resultInfo, suborgHidden, groupHidden >>
              /\ threw' = TRUE

\* clearTimeout(searchTimeout); searchTimeout = setTimeout(...)
ArmedAfterInputNoClear(armed) == IF armed < MaxTimers THEN armed + 1 ELSE armed

ArmedAfterInput(armed) == 1

\* the option values populateFilterOptions offers, and the neutral option
Options(cat) == { allAtos[i][cat] : i \in Atos } \cup {""}

(***************************************************************************)
(* The multi-select bridge: page filtering.                                *)
(***************************************************************************)
multiSelectFilters == {"tipo", "orgao"}

NoMultiFilters == [k \in Categories |-> {}]

\* applyMultiFiltersToPage, lines 364-377: whether a record matches
MatchesSomeCategory(m, ato) ==
  \E k \in Categories : m[k] # {} /\ ato[k] \in m[k]

MatchesMulti(m, ato) ==
  \A k \in Categories : m[k] = {} \/ ato[k] \in m[k]

\* the bridge's updateResultCount: findResultsCounter returns the first
\* element matching "#resultCount, .result-info, .results-count", which is
\* the .result-info container; writing textContent and className to it
\* removes its #resultCount child and its class.  Nothing matches afterwards.
bridgeUpdateResultCount(count) ==
  IF resultInfo.hasResultCount
  THEN resultInfo' = [hasResultCount |-> FALSE,
                      msg |-> ResultCountMessage(count, NumAtos)]
  ELSE UNCHANGED resultInfo

applyMultiFiltersToPage(m) ==
  LET hasActiveFilters == \E k \in Categories : m[k] # {}
      visible == IF hasActiveFilters
                 THEN { i \in Atos : MatchesMulti(m, bridgeAtos[i]) }
                 ELSE Atos
      hidden == Atos \ visible
  IN  /\ hiddenByFilter' = hidden
      /\ suborgHidden' = SuborgsToHide(hidden)
      /\ groupHidden' = GroupsToHide(hidden)
      /\ bridgeUpdateResultCount(Cardinality(visible))
      /\ threw' = FALSE

(***************************************************************************)
(* Initial state: setup() of search-filter.js has run on the page; the     *)
(* bridge, when the page loads it, is still in its start-up delay.         *)
(***************************************************************************)
InitDeep ==
  /\ pagefindInitialized = FALSE
  /\ deepCount = 0
  /\ calls = << >>
  /\ overlayBody = [kind |-> "empty", gen |-> 0, at |-> 0]
  /\ overlayCount = [shown |-> 0, gen |-> 0, at |-> 0]

\* no extraction function is being applied
InitText ==
  /\ fn = "none"
  /\ fnArg = << >>
  /\ fnOut = << >>

\* the number of times the listener bridge may see an element replaced
ElementIds == 1..(MaxRegens + 1)

NoListeners ==
  [inputs |-> [e \in ElementIds |-> 0], blocks |-> [e \in ElementIds |-> 0],
   button |-> 0, document |-> 0]

\* a page that does not load the listener bridge
InitListeners ==
  /\ page = [input |-> 1, block |-> 1]
  /\ buttonInDocument = FALSE
  /\ currentSearchInput = 0
  /\ pfListenersAttached = FALSE
  /\ attached = NoListeners
  /\ redundant = FALSE
  /\ fired = 0

\* setup has called setupEventListeners on the controls it created
InitWatch ==
  /\ listenersAttached = TRUE
  /\ attachCount = 1
  /\ watcherPending = FALSE
  /\ InitListeners

NoSent == [made |-> FALSE]
NoPick == [made |-> FALSE]

\* boot of assets/pagefind-bridge.js has run: its first updateBadge found an
\* empty query
InitPreview ==
  /\ badges = [k \in {"tipo", "orgao"} |-> {}]
  /\ previewTimer = 0
  /\ lastPreview = [query |-> << >>, key |-> << >>]
  /\ previews = << >>
  /\ badgeCount = 0
  /\ badgeBy = "short"
  /\ sent = NoSent
  /\ picked = NoPick
  /\ twice = NoPick

InitAux == InitText /\ InitWatch /\ InitPreview

InitFilter ==
  /\ allAtos = extractAtos(dom)
  /\ currentFilters = NoFilters
  /\ searchTimeout = 0
  /\ inputValue = << >>
  /\ selectValue = [k \in Categories |-> ""]
  /\ hiddenByFilter = {}
  /\ suborgHidden = {}
  /\ groupHidden = {}
  /\ resultInfo = [hasResultCount |-> TRUE,
                   msg |-> ResultCountMessage(NumAtos, NumAtos)]
  /\ activeMultiFilters = NoMultiFilters
  /\ lastOp = "setup"
  /\ threw = FALSE
  /\ lastKey = << >>

\* the filter bar alone
InitBar ==
  /\ dom \in Pages
  /\ bridge = "absent"
  /\ bridgeAtos = << >>
  /\ InitFilter
  /\ pfReady = FALSE
  /\ InitDeep
  /\ InitAux

\* the filter bar and the bridge, booted before the first user action
Init ==
  /\ dom \in BridgePages
  /\ bridge = "booted"
  /\ bridgeAtos = extractAtosData(dom)
  /\ InitFilter
  /\ pfReady = FALSE
  /\ InitDeep
  /\ InitAux

\* the same page when the overlay is first opened: a preview update of the
\* bridge may already have initialised the index
InitOverlay ==
  /\ dom \in BridgePages
  /\ bridge = "booted"
  /\ bridgeAtos = extractAtosData(dom)
  /\ InitFilter
  /\ pfReady \in BOOLEAN
  /\ InitDeep
  /\ InitAux

(***************************************************************************)
(* Events of the page.                                                     *)
(***************************************************************************)
\* the user edits the search box: handleSearchInput
SearchInput(v) ==
  /\ v # inputValue
  /\ inputValue' = v
  /\ searchTimeout' = ArmedAfterInput(searchTimeout)
  /\ lastKey' = v
  /\ lastOp' = "handleSearchInput"
  /\ threw' = FALSE
  /\ UNCHANGED << dom, allAtos, currentFilters, selectValue, hiddenByFilter,
                  suborgHidden, groupHidden, resultInfo, bridge, bridgeAtos,
                  activeMultiFilters >>
  /\ UNCHANGED << deepVars, auxVars >>

ValueAtKeystroke == Trim(lastKey)

\* e.target.value.trim(), evaluated when the callback runs
ValueWhenFired == Trim(inputValue)

\* the 300 ms callback of handleSearchInput
SearchTimerFires ==
  /\ searchTimeout > 0
  /\ searchTimeout' = searchTimeout - 1
  /\ currentFilters' = [currentFilters EXCEPT !.search = ValueWhenFired]
  /\ applyFilters(currentFilters')
  /\ lastOp' = "searchTimer"
  /\ UNCHANGED << dom, allAtos, inputValue, selectValue, bridge, bridgeAtos,
                  activeMultiFilters, lastKey >>
  /\ UNCHANGED << deepVars, auxVars >>

\* handleFilterOrgaoChange, handleFilterTipoChange, handleFilterAnoChange
handleFilterChange(cat, v) ==
  /\ selectValue' = [selectValue EXCEPT ![cat] = v]
  /\ currentFilters' = [currentFilters EXCEPT ![cat] = v]
  /\ applyFilters(currentFilters')
  /\ lastOp' = "handleFilterChange"
  /\ UNCHANGED activeMultiFilters

\* /^todos\b/i on an option value: no option of the modelled pages has
\* such a value, the neutral options have the value ""
TodosValues == {"Todos", "todos os tipos"}

NeverSentinel(v) == FALSE

\* !value || /^todos\b/i.test(value)
IsSentinel(v) == v = "" \/ v \in TodosValues

\* the bridge's capture-phase handler on a managed select
handleMultiFilterChange(cat, v) ==
  /\ selectValue' = [selectValue EXCEPT ![cat] = ""]
  /\ activeMultiFilters' =
       [activeMultiFilters EXCEPT
          ![cat] = IF IsSentinel(v) THEN {} ELSE activeMultiFilters[cat] \cup {v}]
  /\ applyMultiFiltersToPage(activeMultiFilters')
  /\ lastOp' = IF IsSentinel(v) THEN "handleMultiFilterClear"
               ELSE "handleMultiFilterChange"

\* the change listeners of the select of a category, in the order of their
\* registration: search-filter.js's at setup, then the bridge's, which is
\* registered for the capture phase when the bridge boots
Listeners(cat) ==
  << [by |-> "search-filter", capture |-> FALSE] >> \o
  ( IF bridge = "booted" /\ cat \in multiSelectFilters
    THEN << [by |-> "bridge", capture |-> TRUE] >>
    ELSE << >> )

IsCapture(l) == l.capture

NotCapture(l) == ~l.capture

RegistrationOrder(ls) == ls

\* dispatch at the target: the capturing listeners run first
AtTargetOrder(ls) == SelectSeq(ls, IsCapture) \o SelectSeq(ls, NotCapture)

\* the bridge's handler calls stopImmediatePropagation: none runs after it
RECURSIVE UntilStopped(_)
UntilStopped(ls) ==
  IF ls = << >> THEN << >>
  ELSE IF Head(ls).by = "bridge" THEN << "bridge" >>
  ELSE << Head(ls).by >> \o UntilStopped(Tail(ls))

\* the handlers a change event on the select of a category runs, in order
Invoked(cat) == UntilStopped(AtTargetOrder(Listeners(cat)))

\* the user picks option v of a select: a change event on that select
SelectChange(cat, v) ==
  /\ v \in Options(cat)
  /\ v # selectValue[cat]
  /\ IF Invoked(cat) = << "bridge" >>
     THEN /\ handleMultiFilterChange(cat, v)
          /\ UNCHANGED currentFilters
     ELSE IF Invoked(cat) = << "search-filter" >>
     THEN handleFilterChange(cat, v)
     ELSE \* search-filter.js's handler, then the bridge's on the same page
          /\ currentFilters' = [currentFilters EXCEPT ![cat] = v]
          /\ handleMultiFilterChange(cat, v)
  /\ UNCHANGED << dom, allAtos, searchTimeout, inputValue, bridge, bridgeAtos, lastKey >>
  /\ UNCHANGED << deepVars, auxVars >>

\* click on the remove button of the badge of value v
BadgeRemove(cat, v) ==
  /\ bridge = "booted"
  /\ v \in activeMultiFilters[cat]
  /\ activeMultiFilters' =
       [activeMultiFilters EXCEPT ![cat] = activeMultiFilters[cat] \ {v}]
  /\ applyMultiFiltersToPage(activeMultiFilters')
  /\ lastOp' = "badgeRemove"
  /\ UNCHANGED << dom, allAtos, currentFilters, searchTimeout, inputValue,
                  selectValue, bridge, bridgeAtos, lastKey >>
  /\ UNCHANGED << deepVars, auxVars >>

\* click on #resetFilters
resetFilters ==
  /\ inputValue' = << >>
  /\ selectValue' = [k \in Categories |-> ""]
  /\ currentFilters' = NoFilters
  /\ hiddenByFilter' = {}
  /\ groupHidden' = {}
  /\ IF resultInfo.hasResultCount
     THEN /\ resultInfo' = [resultInfo EXCEPT
                 !.msg = ResultCountMessage(NumAtos, NumAtos)]
          /\ threw' = FALSE
     ELSE /\ UNCHANGED resultInfo
          /\ threw' = TRUE
  /\ lastOp' = "resetFilters"
  /\ UNCHANGED << dom, allAtos, searchTimeout, suborgHidden, bridge,
                  bridgeAtos, activeMultiFilters, lastKey >>
  /\ UNCHANGED << deepVars, auxVars >>

(***************************************************************************)
(* The bridge's deep-search overlay: openModal and performSearch.          *)
(* A call is one click on the trigger button; it waits for the index's     *)
(* init ("init"), then for the query ("search"), then for the data of its  *)
(* results ("data").  A write to the overlay records the generation of the *)
(* performSearch that made it (gen) and deepCount at that moment (at).     *)
(***************************************************************************)
WriteBody(kind, gen) == [kind |-> kind, gen |-> gen, at |-> deepCount]

\* updateCountBadge(count)
WriteCount(count, gen) == [shown |-> count, gen |-> gen, at |-> deepCount]

SetCall(c, phase, gen, hits) ==
  [calls EXCEPT ![c] = [phase |-> phase, gen |-> gen, hits |-> hits]]

\* performSearch up to its first await: deepCount++, then the query is sent
IssueSearch(cs, c) ==
  /\ deepCount' = deepCount + 1
  /\ calls' = [cs EXCEPT ![c] = [phase |-> "search", gen |-> deepCount + 1,
                                 hits |-> 0]]

\* click on the trigger button: openModal up to its first pending await
openModal ==
  /\ Len(calls) < MaxCalls
  /\ LET c == Len(calls) + 1
         cs == Append(calls, [phase |-> "init", gen |-> 0, hits |-> 0])
     IN  IF pagefindInitialized
         THEN /\ IssueSearch(cs, c)
              /\ UNCHANGED << pfReady, pagefindInitialized, overlayBody >>
         ELSE IF pfReady
         THEN /\ pagefindInitialized' = TRUE
              /\ IssueSearch(cs, c)
              /\ overlayBody' = WriteBody("loading", 0)
              /\ UNCHANGED pfReady
         ELSE /\ calls' = cs
              /\ overlayBody' = WriteBody("loading", 0)
              /\ UNCHANGED << pfReady, pagefindInitialized, deepCount >>
  /\ UNCHANGED overlayCount
  /\ UNCHANGED << filterVars, auxVars >>

\* window.pagefind.init() resolves for call c: ensurePagefind returns true
InitResolves(c) ==
  /\ c \in DOMAIN calls
  /\ calls[c].phase = "init"
  /\ pfReady' = TRUE
  /\ pagefindInitialized' = TRUE
  /\ IssueSearch(calls, c)
  /\ UNCHANGED << overlayBody, overlayCount >>
  /\ UNCHANGED << filterVars, auxVars >>

\* the index is missing or init() rejects: ensurePagefind returns false
InitFails(c) ==
  /\ c \in DOMAIN calls
  /\ calls[c].phase = "init"
  /\ overlayBody' = WriteBody("load-error", 0)
  /\ calls' = SetCall(c, "done", 0, 0)
  /\ UNCHANGED << pfReady, pagefindInitialized, deepCount, overlayCount >>
  /\ UNCHANGED << filterVars, auxVars >>

\* the guard of performSearch after its query: is this still the newest?
StillCurrent(gen) == gen = deepCount

\* window.pagefind.search resolves for call c with n results
SearchResolves(c, n) ==
  /\ c \in DOMAIN calls
  /\ calls[c].phase = "search"
  /\ IF ~StillCurrent(calls[c].gen)
     THEN /\ calls' = SetCall(c, "done", calls[c].gen, n)
          /\ UNCHANGED << overlayBody, overlayCount >>
     ELSE IF n = 0
     THEN /\ overlayBody' = WriteBody("no-results", calls[c].gen)
          /\ overlayCount' = WriteCount(0, calls[c].gen)
          /\ calls' = SetCall(c, "done", calls[c].gen, n)
     ELSE /\ calls' = SetCall(c, "data", calls[c].gen, n)
          /\ UNCHANGED << overlayBody, overlayCount >>
  /\ UNCHANGED << pfReady, pagefindInitialized, deepCount >>
  /\ UNCHANGED << filterVars, auxVars >>

\* the data of all of call c's results has loaded: render, update the count
DataResolves(c) ==
  /\ c \in DOMAIN calls
  /\ calls[c].phase = "data"
  /\ overlayBody' = WriteBody("results", calls[c].gen)
  /\ overlayCount' = WriteCount(calls[c].hits, calls[c].gen)
  /\ calls' = SetCall(c, "done", calls[c].gen, calls[c].hits)
  /\ UNCHANGED << pfReady, pagefindInitialized, deepCount >>
  /\ UNCHANGED << filterVars, auxVars >>

\* the query or a data load of call c rejects: the catch block
SearchFails(c) ==
  /\ c \in DOMAIN calls
  /\ calls[c].phase \in {"search", "data"}
  /\ overlayBody' = WriteBody("search-error", calls[c].gen)
  /\ calls' = SetCall(c, "done", calls[c].gen, calls[c].hits)
  /\ UNCHANGED << pfReady, pagefindInitialized, deepCount, overlayCount >>
  /\ UNCHANGED << filterVars, auxVars >>

NextDeep ==
  \/ openModal
  \/ \E c \in 1..MaxCalls : InitResolves(c)
  \/ \E c \in 1..MaxCalls : InitFails(c)
  \/ \E c \in 1..MaxCalls, n \in 0..MaxHits : SearchResolves(c, n)
  \/ \E c \in 1..MaxCalls : DataResolves(c)
  \/ \E c \in 1..MaxCalls : SearchFails(c)

\* the overlay of a page whose bridge has booted
SpecDeep == InitOverlay /\ [][NextDeep]_vars

OptionValues ==
  {"", "Outro"} \cup { tipos[k] : k \in DOMAIN tipos }
    \cup { Spell(normalizeOrgao(Headings[g])) : g \in DOMAIN Headings }
    \cup { LineKinds[k].ano : k \in DOMAIN LineKinds }

NextBar ==
  \/ \E v \in InputValues : SearchInput(v)
  \/ SearchTimerFires
  \/ \E cat \in Categories, v \in OptionValues : SelectChange(cat, v)
  \/ resetFilters

Next ==
  \/ NextBar
  \/ \E cat \in multiSelectFilters, v \in OptionValues : BadgeRemove(cat, v)

SpecBar == InitBar /\ [][NextBar]_vars

\* the page while the bridge is in its start-up delay: the selects are
\* handled by search-filter.js alone until boot resumes
InitBoot ==
  /\ dom \in BridgePages
  /\ bridge = "waiting"
  /\ bridgeAtos = << >>
  /\ InitFilter
  /\ pfReady = FALSE
  /\ InitDeep
  /\ InitAux

\* boot after its 500 ms delay: extractAtosData, setupFilterInterception
boot ==
  /\ bridge = "waiting"
  /\ bridge' = "booted"
  /\ bridgeAtos' = extractAtosData(dom)
  /\ lastOp' = "boot"
  /\ UNCHANGED << dom, allAtos, currentFilters, searchTimeout, inputValue,
                  selectValue, hiddenByFilter, suborgHidden, groupHidden,
                  resultInfo, activeMultiFilters, threw, lastKey >>
  /\ UNCHANGED << deepVars, auxVars >>

NextBoot ==
  \/ boot
  \/ \E cat \in Categories, v \in OptionValues : SelectChange(cat, v)
  \/ \E cat \in multiSelectFilters, v \in OptionValues : BadgeRemove(cat, v)

SpecBoot == InitBoot /\ [][NextBoot]_vars

Spec == Init /\ [][Next]_vars

(***************************************************************************)
(* Properties.                                                             *)
(***************************************************************************)
RanApplyFilters == lastOp \in {"searchTimer", "handleFilterChange"}
RanApplyMulti ==
  lastOp \in {"handleMultiFilterChange", "handleMultiFilterClear", "badgeRemove"}
Shown == Atos \ hiddenByFilter

\* C1: after applyFilters with an empty query and no orgao, tipo or ano
\* value, no record is hidden.
C1_NoConstraintShowsAll ==
  (RanApplyFilters /\ currentFilters = NoFilters) => Shown = Atos

C1_Witness ==
  /\ bridge = "absent"
  /\ lastOp = "handleFilterChange"
  /\ currentFilters = NoFilters
  /\ Shown = Atos
  /\ Cardinality({ allAtos[i].tipo : i \in Atos }) > 1

\* C2: after applyFilters the shown records are exactly the candidates (all
\* records, or the index results of a non-empty query) that equal the active
\* value in every category whose value is not empty.
C2_SingleValueExact ==
  RanApplyFilters =>
    \A i \in Atos :
      i \in Shown <=>
        /\ currentFilters.search # << >> => currentFilters.search \in allAtos[i].hits
        /\ \A cat \in Categories :
             currentFilters[cat] # "" => allAtos[i][cat] = currentFilters[cat]

C2_Witness ==
  /\ bridge = "absent"
  /\ RanApplyFilters
  /\ currentFilters.search # << >>
  /\ currentFilters.tipo # ""
  /\ currentFilters.ano # ""
  /\ Shown # {}
  /\ Shown # Atos

\* C3: after applyMultiFiltersToPage the shown records are exactly those
\* whose value is in the active set of every category whose set is not
\* empty (the values being those of the bridge's own records).
C3_MultiValueExact ==
  RanApplyMulti =>
    hiddenByFilter =
      { i \in Atos : \E k \in Categories :
          /\ activeMultiFilters[k] # {}
          /\ bridgeAtos[i][k] \notin activeMultiFilters[k] }

C3_Witness ==
  /\ RanApplyMulti
  /\ activeMultiFilters.tipo = {"Lei", "Decreto"}
  /\ activeMultiFilters.orgao = {}
  /\ Shown = { i \in Atos : bridgeAtos[i].tipo \in {"Lei", "Decreto"} }
  /\ Cardinality(Shown) = 2
  /\ hiddenByFilter # {}

\* C4: with the bridge active, after any recomputation with no debounce
\* pending the shown records are those that satisfy the query, the year
\* value and every non-empty multi-value set at once.
C4_SubsystemsAgree ==
  (bridge = "booted" /\ (RanApplyFilters \/ RanApplyMulti) /\ searchTimeout = 0) =>
    Shown =
      { i \in Atos :
          /\ currentFilters.search # << >> => currentFilters.search \in allAtos[i].hits
          /\ currentFilters.ano # "" => allAtos[i].ano = currentFilters.ano
          /\ \A k \in Categories :
               activeMultiFilters[k] # {} => bridgeAtos[i][k] \in activeMultiFilters[k] }

\* C5: after every recomputation a sub-group is hidden iff all its records
\* are hidden, and an outer group is hidden iff all its records are hidden.
C5_ContainersFollowRecords ==
  (RanApplyFilters \/ RanApplyMulti) =>
    /\ \A s \in Suborgs : s \in suborgHidden <=> LinesOfSuborg(s) \cap Shown = {}
    /\ \A g \in Groups : g \in groupHidden <=> LinesOfGroup(g) \cap Shown = {}

\* C6: after every recomputation the result count shows the number of
\* records not hidden, with the 'all shown' class iff that number is the
\* total.
C6_CountMatchesShown ==
  (RanApplyFilters \/ RanApplyMulti) =>
    /\ resultInfo.msg.shown = Cardinality(Shown)
    /\ resultInfo.msg.total = NumAtos
    /\ resultInfo.msg.cls = "result-count-all" <=> Cardinality(Shown) = NumAtos

\* C7: after the reset action every record, sub-group and outer group is
\* displayed and the result count shows the 'all shown' message.
C7_ResetShowsEverything ==
  lastOp = "resetFilters" =>
    /\ hiddenByFilter = {}
    /\ suborgHidden = {}
    /\ groupHidden = {}
    /\ resultInfo.msg = [cls |-> "result-count-all", shown |-> NumAtos,
                         total |-> NumAtos]

\* C8: after the reset action the query, the three single values and, with
\* the bridge present, every multi-value set are empty.
C8_ResetClearsFilterState ==
  lastOp = "resetFilters" =>
    /\ currentFilters = NoFilters
    /\ bridge = "booted" => \A k \in Categories : activeMultiFilters[k] = {}

\* C9: every input event leaves exactly one debounce callback armed; when
\* it runs no other is left, and the query it applies is the trimmed value
\* of the last input event (as long as the box still holds that value).
C9_DebounceLastKeystroke ==
  /\ searchTimeout \in {0, 1}
  /\ lastOp = "handleSearchInput" => searchTimeout = 1
  /\ lastOp = "searchTimer" =>
       /\ searchTimeout = 0
       /\ inputValue = lastKey => currentFilters.search = Trim(lastKey)

C9_Witness ==
  /\ lastOp = "searchTimer"
  /\ lastKey = <<"b", " ">>
  /\ inputValue = lastKey
  /\ currentFilters.search = <<"b">>
  /\ searchTimeout = 0

\* C10: nothing that performSearch writes to the overlay body or count
\* comes from a generation older than deepCount at the time of the write.
C10_NoStaleOverlayWrite ==
  /\ overlayBody.kind \in {"results", "no-results", "search-error"} =>
       overlayBody.gen = overlayBody.at
  /\ overlayCount.gen = overlayCount.at

(***************************************************************************)
(* The controls are detached and recreated by the page after setup; the    *)
(* MutationObserver of observeSearchInputChanges watches for it.  The new  *)
(* elements carry no listener until setupEventListeners runs again.        *)
(***************************************************************************)
InitControls ==
  /\ dom \in BridgePages
  /\ bridge = "absent"
  /\ bridgeAtos = << >>
  /\ InitFilter
  /\ pfReady = FALSE
  /\ InitDeep
  /\ InitAux

\* the controls are replaced by new elements in their neutral state
RecreateControls ==
  /\ attachCount' = 0
  /\ watcherPending' = TRUE
  /\ inputValue' = << >>
  /\ selectValue' = [k \in Categories |-> ""]
  /\ lastOp' = "recreateControls"
  /\ UNCHANGED << dom, allAtos, currentFilters, searchTimeout, hiddenByFilter,
                  suborgHidden, groupHidden, resultInfo, bridge, bridgeAtos,
                  activeMultiFilters, threw, lastKey, listenersAttached >>
  /\ UNCHANGED << deepVars, textVars, previewVars, listenVars >>

\* the observer's callback: if (searchInput && !listenersAttached)
\* setupEventListeners(), which sets the flag and adds the five listeners
WatcherCallback ==
  /\ watcherPending
  /\ watcherPending' = FALSE
  /\ IF ~listenersAttached
     THEN /\ listenersAttached' = TRUE
          /\ attachCount' = attachCount + 1
     ELSE UNCHANGED << listenersAttached, attachCount >>
  /\ lastOp' = "watcherCallback"
  /\ UNCHANGED << dom, allAtos, currentFilters, searchTimeout, inputValue,
                  selectValue, hiddenByFilter, suborgHidden, groupHidden,
                  resultInfo, bridge, bridgeAtos, activeMultiFilters, threw,
                  lastKey >>
  /\ UNCHANGED << deepVars, textVars, previewVars, listenVars >>

\* an input event on a search box that carries the handler
HeardInput(v) == attachCount > 0 /\ SearchInput(v)

\* the same event on a search box that carries none: only its value changes
UnheardInput(v) ==
  /\ attachCount = 0
  /\ v # inputValue
  /\ inputValue' = v
  /\ lastOp' = "unheard"
  /\ UNCHANGED << dom, allAtos, currentFilters, searchTimeout, selectValue,
                  hiddenByFilter, suborgHidden, groupHidden, resultInfo,
                  bridge, bridgeAtos, activeMultiFilters, threw, lastKey >>
  /\ UNCHANGED << deepVars, auxVars >>

NextControls ==
  \/ RecreateControls
  \/ WatcherCallback
  \/ \E v \in InputValues : HeardInput(v)
  \/ SearchTimerFires
  \/ \E v \in InputValues : UnheardInput(v)

SpecControls == InitControls /\ [][NextControls]_vars

(***************************************************************************)
(* The bridge that keeps its listeners across regenerations of the         *)
(* controls (part_000, the script with attachEventListeners and            *)
(* detachEventListeners).  Its button #pf-trigger is created once, by      *)
(* injectUI; the search box and the filters block are replaced by new      *)
(* elements when the page regenerates them.                                *)
(***************************************************************************)
KeepListener(count) == count

\* target.removeEventListener(type, handler)
removeEventListener(count) == 0

\* target.addEventListener(type, handler): a handler that is registered on
\* the target is not registered a second time
addEventListener(count) == IF count > 0 THEN count ELSE 1

\* the script's variables as a handler goes along: currentSearchInput,
\* listenersAttached, the registrations, and whether one was redundant
ListenerState ==
  [cur |-> currentSearchInput, flag |-> pfListenersAttached,
   att |-> attached, red |-> redundant]

\* attachEventListeners(): click on the button, input on the search box,
\* keydown on the document, change on findFiltersBlock()
attachEventListeners(st) ==
  IF st.flag THEN st
  ELSE IF st.cur = 0 THEN st
  ELSE [st EXCEPT
          !.att = [button |-> addEventListener(st.att.button),
                   inputs |-> [st.att.inputs EXCEPT
                                 ![st.cur] = addEventListener(@)],
                   document |-> addEventListener(st.att.document),
                   blocks |-> [st.att.blocks EXCEPT
                                 ![page.block] = addEventListener(@)]],
          !.red = \/ st.red
                  \/ st.att.button > 0
                  \/ st.att.inputs[st.cur] > 0
                  \/ st.att.document > 0
                  \/ st.att.blocks[page.block] > 0,
          !.flag = TRUE]

\* detachEventListeners()
detachEventListeners(st) ==
  IF ~st.flag THEN st
  ELSE [st EXCEPT
          !.att = [button |-> removeEventListener(st.att.button),
                   inputs |-> IF st.cur = 0 THEN st.att.inputs
                              ELSE [st.att.inputs EXCEPT
                                      ![st.cur] = removeEventListener(@)],
                   document |-> removeEventListener(st.att.document),
                   blocks |-> [st.att.blocks EXCEPT
                                 ![page.block] = removeEventListener(@)]],
          !.flag = FALSE]

\* the page with search-filter.js set up, before this bridge's boot
InitListenerBridge ==
  /\ dom = [i \in Atos |-> LineKinds[((i - 1) % 2) + 1]]
  /\ bridge = "listeners"
  /\ bridgeAtos = << >>
  /\ InitFilter
  /\ pfReady = FALSE
  /\ InitDeep
  /\ InitAux

SetListenerState(st) ==
  /\ currentSearchInput' = st.cur
  /\ pfListenersAttached' = st.flag
  /\ attached' = st.att
  /\ redundant' = st.red

\* boot: injectUI(input) creates the button, stores the references and
\* calls attachEventListeners(); observeSearchInputChanges()
injectUI ==
  /\ currentSearchInput = 0
  /\ buttonInDocument' = TRUE
  /\ SetListenerState(attachEventListeners([ListenerState EXCEPT !.cur = page.input]))
  /\ lastOp' = "injectUI"
  /\ UNCHANGED << dom, allAtos, currentFilters, searchTimeout, inputValue,
                  selectValue, hiddenByFilter, suborgHidden, groupHidden,
                  resultInfo, bridge, bridgeAtos, activeMultiFilters, threw,
                  lastKey >>
  /\ UNCHANGED << listenersAttached, attachCount, watcherPending, page, fired >>
  /\ UNCHANGED << deepVars, textVars, previewVars >>

\* what a change of the document leaves alone
MutationFrame ==
  /\ watcherPending' = TRUE
  /\ UNCHANGED << dom, allAtos, currentFilters, searchTimeout, selectValue,
                  hiddenByFilter, suborgHidden, groupHidden, resultInfo,
                  bridge, bridgeAtos, activeMultiFilters, threw, lastKey >>
  /\ UNCHANGED << listenersAttached, attachCount, currentSearchInput,
                  pfListenersAttached, attached, redundant, fired >>
  /\ UNCHANGED << deepVars, textVars, previewVars >>

\* the page replaces the controls container: a new search box and a new
\* filters block; the button, which stood inside the container, is gone
RegenerateControls ==
  /\ currentSearchInput # 0
  /\ page.input <= MaxRegens
  /\ page.block <= MaxRegens
  /\ page' = [input |-> page.input + 1, block |-> page.block + 1]
  /\ buttonInDocument' = FALSE
  /\ inputValue' = << >>
  /\ lastOp' = "regenerateControls"
  /\ MutationFrame

\* the page replaces the search box alone
ReplaceSearchInput ==
  /\ currentSearchInput # 0
  /\ page.input <= MaxRegens
  /\ page' = [page EXCEPT !.input = page.input + 1]
  /\ inputValue' = << >>
  /\ lastOp' = "replaceSearchInput"
  /\ UNCHANGED buttonInDocument
  /\ MutationFrame

\* a child is added to the body or to the controls container
OtherMutation ==
  /\ currentSearchInput # 0
  /\ ~watcherPending
  /\ lastOp' = "otherMutation"
  /\ UNCHANGED << page, buttonInDocument, inputValue >>
  /\ MutationFrame

\* the callback of this bridge's MutationObserver
ListenerWatcherCallback ==
  /\ currentSearchInput # 0
  /\ watcherPending
  /\ watcherPending' = FALSE
  /\ LET st0 == ListenerState
         st1 == IF buttonInDocument /\ ~st0.flag
                THEN attachEventListeners([st0 EXCEPT !.cur = page.input])
                ELSE st0
         st2 == IF page.input # st1.cur
                THEN attachEventListeners(
                       [detachEventListeners(st1) EXCEPT !.cur = page.input])
                ELSE st1
     IN  SetListenerState(st2)
  /\ lastOp' = "listenerWatcherCallback"
  /\ UNCHANGED << dom, allAtos, currentFilters, searchTimeout, inputValue,
                  selectValue, hiddenByFilter, suborgHidden, groupHidden,
                  resultInfo, bridge, bridgeAtos, activeMultiFilters, threw,
                  lastKey >>
  /\ UNCHANGED << listenersAttached, attachCount, page, buttonInDocument, fired >>
  /\ UNCHANGED << deepVars, textVars, previewVars >>

\* an input event on the search box in the document: handleSearchInputChange
\* runs once per registration and arms the preview timer (400 ms)
ListenerInput(v) ==
  /\ currentSearchInput # 0
  /\ v # inputValue
  /\ inputValue' = v
  /\ fired' = attached.inputs[page.input]
  /\ previewTimer' = IF fired' > 0 THEN 1 ELSE previewTimer
  /\ lastOp' = "listenerInput"
  /\ UNCHANGED << dom, allAtos, currentFilters, searchTimeout, selectValue,
                  hiddenByFilter, suborgHidden, groupHidden, resultInfo,
                  bridge, bridgeAtos, activeMultiFilters, threw, lastKey >>
  /\ UNCHANGED << listenersAttached, attachCount, watcherPending, page,
                  buttonInDocument, currentSearchInput, pfListenersAttached,
                  attached, redundant >>
  /\ UNCHANGED << badges, lastPreview, previews, badgeCount, badgeBy, sent, picked, twice >>
  /\ UNCHANGED << deepVars, textVars >>

NextListeners ==
  \/ injectUI
  \/ RegenerateControls
  \/ ReplaceSearchInput
  \/ OtherMutation
  \/ ListenerWatcherCallback
  \/ \E v \in InputValues : ListenerInput(v)

SpecListeners == InitListenerBridge /\ [][NextListeners]_vars

(***************************************************************************)
(* The bridge of assets/pagefind-bridge.js: a selection on a managed       *)
(* select toggles its value, a debounced preview asks the index for a      *)
(* count and shows it on the trigger button.  This bridge does not filter  *)
(* the page.  An updateBadge call that waits for the index is "init" until *)
(* pagefind.init() settles and "search" until its query settles.           *)
(***************************************************************************)
\* what the user can have in the search box of this page
PreviewInputs == { << >>, <<"a", "b", " ">> }

\* Array.from(valueSet).filter(v => v && v.trim() && !/^todos\b/i.test(v))
KeptValues(set) == { v \in set : ~IsSentinel(v) }

\* the filter object: a key for every category that keeps a value, holding
\* the value itself (array FALSE) or the array of the values (array TRUE)
AlwaysSingle(values) == TRUE

\* values.length === 1
SingleString(values) == Cardinality(values) = 1

getActiveFiltersObject(m) ==
  [ k \in { c \in Categories : KeptValues(m[c]) # {} } |->
      [array |-> ~SingleString(KeptValues(m[k])), values |-> KeptValues(m[k])] ]

\* JSON.stringify(obj, Object.keys(obj).sort()): the entries in key order
filtersCacheKey(obj) ==
  LET IsKey(k) == k \in DOMAIN obj
      keys == SelectSeq(<< "ano", "orgao", "tipo" >>, IsKey)
  IN  [ i \in DOMAIN keys |-> << keys[i], obj[keys[i]] >> ]

\* every set is cleared, then each select's present value is added
updateMultiFiltersFromSelects ==
  [ k \in Categories |->
      IF IsSentinel(selectValue[k]) THEN {} ELSE {selectValue[k]} ]

\* a page of the first two kinds of line in turn
InitAssets ==
  /\ dom = [i \in Atos |-> LineKinds[((i - 1) % 2) + 1]]
  /\ bridge = "assets"
  /\ bridgeAtos = << >>
  /\ InitFilter
  /\ pfReady = FALSE
  /\ InitDeep
  /\ InitAux

\* what is recorded of a query sent to the index: its text and filters, and
\* the search text, the badges and the year select at that moment
Sent(query, filters) ==
  [made |-> TRUE, query |-> query, filters |-> filters,
   text |-> Trim(inputValue), badges |-> badges, ano |-> selectValue.ano]

\* the capture-phase handler of this bridge on a managed select
toggleMultiFilterChange(cat, v) ==
  /\ bridge = "assets"
  /\ v \in Options(cat)
  /\ v # selectValue[cat]
  /\ activeMultiFilters' =
       [activeMultiFilters EXCEPT
          ![cat] = IF IsSentinel(v) THEN {}
                   ELSE IF v \in activeMultiFilters[cat]
                   THEN activeMultiFilters[cat] \ {v}
                   ELSE activeMultiFilters[cat] \cup {v}]
  /\ selectValue' = [selectValue EXCEPT ![cat] = ""]
  /\ badges' = [badges EXCEPT ![cat] = activeMultiFilters'[cat]]
  /\ previewTimer' = 1
  /\ LET second == picked.made /\ picked.cat = cat /\ picked.v = v
     IN  /\ twice' = IF second
                     THEN [made |-> TRUE, cat |-> cat, before |-> picked.before]
                     ELSE NoPick
         /\ picked' = IF second \/ IsSentinel(v) THEN NoPick
                      ELSE [made |-> TRUE, cat |-> cat, v |-> v,
                            before |-> activeMultiFilters[cat]]
  /\ sent' = NoSent
  /\ lastOp' = "toggleMultiFilterChange"
  /\ threw' = FALSE
  /\ UNCHANGED << dom, allAtos, currentFilters, searchTimeout, inputValue,
                  hiddenByFilter, suborgHidden, groupHidden, resultInfo,
                  bridge, bridgeAtos, lastKey >>
  /\ UNCHANGED << lastPreview, previews, badgeCount, badgeBy >>
  /\ UNCHANGED << deepVars, textVars, watchVars >>

\* click on the remove button of a badge of this bridge
removeBadge(cat, v) ==
  /\ bridge = "assets"
  /\ v \in badges[cat]
  /\ activeMultiFilters' =
       [activeMultiFilters EXCEPT ![cat] = activeMultiFilters[cat] \ {v}]
  /\ badges' = [badges EXCEPT ![cat] = activeMultiFilters'[cat]]
  /\ previewTimer' = 1
  /\ picked' = IF picked.made /\ picked.cat = cat THEN NoPick ELSE picked
  /\ twice' = NoPick
  /\ sent' = NoSent
  /\ lastOp' = "removeBadge"
  /\ threw' = FALSE
  /\ UNCHANGED << dom, allAtos, currentFilters, searchTimeout, inputValue,
                  selectValue, hiddenByFilter, suborgHidden, groupHidden,
                  resultInfo, bridge, bridgeAtos, lastKey >>
  /\ UNCHANGED << lastPreview, previews, badgeCount, badgeBy >>
  /\ UNCHANGED << deepVars, textVars, watchVars >>

\* a change of #filterAno: search-filter.js's handler, then the change
\* listener of this bridge on the filters block (250 ms)
YearChange(v) ==
  /\ bridge = "assets"
  /\ v \in Options("ano")
  /\ v # selectValue.ano
  /\ handleFilterChange("ano", v)
  /\ previewTimer' = 1
  /\ twice' = NoPick
  /\ sent' = NoSent
  /\ UNCHANGED << dom, allAtos, searchTimeout, inputValue, bridge, bridgeAtos,
                  lastKey >>
  /\ UNCHANGED << badges, lastPreview, previews, badgeCount, badgeBy, picked >>
  /\ UNCHANGED << deepVars, textVars, watchVars >>

\* an input event on the search box: the input listener of this bridge
\* (400 ms).  The handler of search-filter.js for the same event acts on
\* currentFilters and the page, which this bridge never reads.
PreviewInput(v) ==
  /\ bridge = "assets"
  /\ v # inputValue
  /\ inputValue' = v
  /\ UNCHANGED << searchTimeout, lastKey >>
  /\ previewTimer' = 1
  /\ twice' = NoPick
  /\ sent' = NoSent
  /\ lastOp' = "previewInput"
  /\ threw' = FALSE
  /\ UNCHANGED << dom, allAtos, currentFilters, selectValue, hiddenByFilter,
                  suborgHidden, groupHidden, resultInfo, bridge, bridgeAtos,
                  activeMultiFilters >>
  /\ UNCHANGED << badges, lastPreview, previews, badgeCount, badgeBy, picked >>
  /\ UNCHANGED << deepVars, textVars, watchVars >>

\* setBadgeCount(button, n): deepCount = n, and the button's badge shows n
\* (no badge when n is 0)
setBadgeCount(n) ==
  /\ deepCount' = n
  /\ badgeCount' = n

\* updateBadge up to its first pending await, with at most limit calls waiting
updateBadge(limit) ==
  /\ previewTimer' = 0
  /\ LET m == updateMultiFiltersFromSelects
         activeFilters == getActiveFiltersObject(m)
         currentFK == filtersCacheKey(activeFilters)
         query == Trim(inputValue)
     IN  /\ activeMultiFilters' = m
         /\ IF Len(query) < 2
            THEN /\ setBadgeCount(0)
                 /\ badgeBy' = "short"
                 /\ lastOp' = "updateBadge"
                 /\ sent' = NoSent
                 /\ UNCHANGED << lastPreview, previews >>
            ELSE IF query = lastPreview.query /\ currentFK = lastPreview.key
            THEN /\ sent' = NoSent
                 /\ lastOp' = "updateBadgeCached"
                 /\ UNCHANGED << lastPreview, previews, badgeCount, badgeBy, deepCount >>
            ELSE /\ Len(previews) < limit
                 /\ lastOp' = "updateBadge"
                 /\ lastPreview' = [query |-> query, key |-> currentFK]
                 /\ IF pfReady
                    THEN /\ previews' = Append(previews, [phase |-> "search",
                                query |-> << >>, filters |-> << >>, stale |-> FALSE])
                         /\ sent' = Sent(query, activeFilters)
                    ELSE /\ previews' = Append(previews, [phase |-> "init",
                                query |-> query, filters |-> activeFilters, stale |-> FALSE])
                         /\ sent' = NoSent
                 /\ UNCHANGED << badgeCount, badgeBy, deepCount >>
  /\ twice' = NoPick
  /\ threw' = FALSE
  /\ UNCHANGED << dom, allAtos, currentFilters, searchTimeout, inputValue,
                  selectValue, hiddenByFilter, suborgHidden, groupHidden,
                  resultInfo, bridge, bridgeAtos, lastKey >>
  /\ UNCHANGED << badges, picked >>
  /\ UNCHANGED << pfReady, pagefindInitialized, calls, overlayBody,
                  overlayCount >>
  /\ UNCHANGED << textVars, watchVars >>

\* the preview callback of the debounce timer
PreviewTimerFires ==
  /\ previewTimer > 0
  /\ updateBadge(MaxPreviews)

Without(seq, c) == SubSeq(seq, 1, c - 1) \o SubSeq(seq, c + 1, Len(seq))

\* call c has written the badge and is over; the calls made before it that
\* still wait are marked: they answer an older request than the one answered
Answered(seq, c) ==
  Without([i \in DOMAIN seq |->
             IF i < c THEN [seq[i] EXCEPT !.stale = TRUE] ELSE seq[i]], c)

\* what the continuations of updateBadge leave alone
PreviewFrame ==
  /\ twice' = NoPick
  /\ threw' = FALSE
  /\ UNCHANGED << dom, allAtos, currentFilters, searchTimeout, inputValue,
                  selectValue, hiddenByFilter, suborgHidden, groupHidden,
                  resultInfo, bridge, bridgeAtos, activeMultiFilters, lastKey >>
  /\ UNCHANGED << badges, previewTimer, lastPreview, picked >>
  /\ UNCHANGED << pagefindInitialized, calls, overlayBody, overlayCount >>
  /\ UNCHANGED << textVars, watchVars >>

\* pagefind.init() resolves for call c: pfReady = true, the query is sent
PreviewInitResolves(c) ==
  /\ c \in DOMAIN previews
  /\ previews[c].phase = "init"
  /\ pfReady' = TRUE
  /\ previews' = [previews EXCEPT ![c] = [phase |-> "search", query |-> << >>,
                                          filters |-> << >>,
                                          stale |-> previews[c].stale]]
  /\ sent' = Sent(previews[c].query, previews[c].filters)
  /\ lastOp' = "previewInitResolves"
  /\ UNCHANGED << badgeCount, badgeBy, deepCount >>
  /\ PreviewFrame

\* the index is missing or init() rejects: setBadgeCount(button, 0)
PreviewInitFails(c) ==
  /\ c \in DOMAIN previews
  /\ previews[c].phase = "init"
  /\ previews' = Answered(previews, c)
  /\ setBadgeCount(0)
  /\ sent' = NoSent
  /\ badgeBy' = "unavailable"
  /\ lastOp' = "previewInitFails"
  /\ UNCHANGED pfReady
  /\ PreviewFrame

\* the query of call c resolves with n results: setBadgeCount(button, n)
PreviewSearchResolves(c, n) ==
  /\ c \in DOMAIN previews
  /\ previews[c].phase = "search"
  /\ previews' = Answered(previews, c)
  /\ setBadgeCount(n)
  /\ sent' = NoSent
  /\ badgeBy' = "result"
  /\ lastOp' = "previewSearchResolves"
  /\ UNCHANGED pfReady
  /\ PreviewFrame

\* the query of call c rejects: the catch block, setBadgeCount(button, 0)
PreviewSearchFails(c) ==
  /\ c \in DOMAIN previews
  /\ previews[c].phase = "search"
  /\ previews' = Answered(previews, c)
  /\ setBadgeCount(0)
  /\ sent' = NoSent
  /\ badgeBy' = "error"
  /\ lastOp' = "previewSearchFails"
  /\ UNCHANGED pfReady
  /\ PreviewFrame

NextAssets ==
  \/ \E cat \in multiSelectFilters, v \in OptionValues : toggleMultiFilterChange(cat, v)
  \/ \E cat \in multiSelectFilters, v \in OptionValues : removeBadge(cat, v)
  \/ \E v \in OptionValues : YearChange(v)
  \/ \E v \in PreviewInputs : PreviewInput(v)
  \/ PreviewTimerFires
  \/ \E c \in 1..MaxPreviews : PreviewInitResolves(c)
  \/ \E c \in 1..MaxPreviews : PreviewInitFails(c)
  \/ \E c \in 1..MaxPreviews, n \in 0..MaxHits : PreviewSearchResolves(c, n)
  \/ \E c \in 1..MaxPreviews : PreviewSearchFails(c)

SpecAssets == InitAssets /\ [][NextAssets]_vars

(***************************************************************************)
(* The preview of the assets bridge with several requests under way: the   *)
(* debounce callback runs while earlier updateBadge calls still wait for   *)
(* the index, and the answers come back in any order.                      *)
(***************************************************************************)
\* the preview callback, with up to MaxRequests calls waiting
PreviewTimerFiresAgain ==
  /\ previewTimer > 0
  /\ updateBadge(MaxRequests)

NextRequests ==
  \/ \E v \in OptionValues : YearChange(v)
  \/ \E v \in PreviewInputs : PreviewInput(v)
  \/ PreviewTimerFiresAgain
  \/ \E c \in 1..MaxRequests : PreviewInitResolves(c)
  \/ \E c \in 1..MaxRequests : PreviewInitFails(c)
  \/ \E c \in 1..MaxRequests, n \in 0..MaxHits : PreviewSearchResolves(c, n)
  \/ \E c \in 1..MaxRequests : PreviewSearchFails(c)

SpecRequests == InitAssets /\ [][NextRequests]_vars

(***************************************************************************)
(* The extraction functions of search-filter.js (and the bridge's type     *)
(* list), applied to a text.                                               *)
(***************************************************************************)
InitTexts ==
  /\ dom = [i \in Atos |-> LineKinds[1]]
  /\ bridge = "absent"
  /\ bridgeAtos = << >>
  /\ InitFilter
  /\ pfReady = FALSE
  /\ InitDeep
  /\ fn = "none"
  /\ fnArg \in Texts
  /\ fnOut = << >>
  /\ InitWatch
  /\ InitPreview

CallExtractTipoAto ==
  /\ fn = "none"
  /\ fn' = "extractTipoAto"
  /\ fnOut' = extractTipoAto(LabelsIn(fnArg))
  /\ UNCHANGED << fnArg, filterVars, deepVars, watchVars, previewVars >>

CallBridgeExtractTipoAto ==
  /\ fn = "none"
  /\ fn' = "bridgeExtractTipoAto"
  /\ fnOut' = bridgeExtractTipoAto(LabelsIn(fnArg))
  /\ UNCHANGED << fnArg, filterVars, deepVars, watchVars, previewVars >>

CallExtractAno ==
  /\ fn = "none"
  /\ fn' = "extractAno"
  /\ fnOut' = extractAno(fnArg)
  /\ UNCHANGED << fnArg, filterVars, deepVars, watchVars, previewVars >>

CallNormalizeOrgao ==
  /\ fn = "none"
  /\ fn' = "normalizeOrgao"
  /\ fnOut' = normalizeOrgao(fnArg)
  /\ UNCHANGED << fnArg, filterVars, deepVars, watchVars, previewVars >>

\* the value normalizeOrgao returned is normalized once more
CallNormalizeOrgaoAgain ==
  /\ fn = "normalizeOrgao"
  /\ fn' = "normalizeOrgao twice"
  /\ fnArg' = fnOut
  /\ fnOut' = normalizeOrgao(fnOut)
  /\ UNCHANGED << filterVars, deepVars, watchVars, previewVars >>

NextText ==
  \/ CallExtractTipoAto
  \/ CallBridgeExtractTipoAto
  \/ CallExtractAno
  \/ CallNormalizeOrgao
  \/ CallNormalizeOrgaoAgain

SpecText == InitTexts /\ [][NextText]_vars

(***************************************************************************)
(* extractAtos on a page whose lines may lack a part.  A part of a line    *)
(* (the title link, the description, the h2 of the line's .org-group) is   *)
(* an element with a text, or is not in the document.                      *)
(***************************************************************************)
NoElement == [has |-> FALSE]

Element(text) == [has |-> TRUE, text |-> text]

\* el ? el.textContent.trim() : ''
TrimmedText(el) == IF el.has THEN Trim(el.text) ELSE << >>

\* the h2 of each .org-group; the third group has none
RawHeadings ==
  << Element(<<"L", "e", "g", "i", "s", "l", "a", "c,", "a~", "o", " ", "F",
               "e", "d", "e", "r", "a", "l", " ">>),
     Element(txtCorregedoria),
     NoElement >>

RawLines ==
  << [grp |-> 1, sub |-> 1, hits |-> {<<"a">>},
      title |-> Element(<<" ", "L", "e", "i", " ", "n", "^o", " ", "1", "/",
                          "2", "0", "2", "0", " ">>),
      description |-> Element(<<"x", " ">>)],
     [grp |-> 1, sub |-> 0, hits |-> {},
      title |-> NoElement,
      description |-> Element(<<"y">>)],
     [grp |-> 2, sub |-> 1, hits |-> {<<"b">>},
      title |-> Element(<<"D", "e", "c", "r", "e", "t", "o", " ", "5", " ",
                          "d", "e", " ", "2", "0", "1", "9">>),
      description |-> NoElement],
     [grp |-> 3, sub |-> 0, hits |-> {<<"a">>, <<"b">>},
      title |-> Element(<<"L", "e", "i", " ", "n", "^o", " ", "1", "/", "2",
                          "0", "2", "0">>),
      description |-> Element(<<"x">>)],
     [grp |-> 2, sub |-> 1, hits |-> {},
      title |-> NoElement,
      description |-> NoElement] >>

RawPages == [Atos -> { RawLines[k] : k \in DOMAIN RawLines }]

FirstIndex(i) == 1

\* the index forEach passes for the element at position i
OrdinalIndex(i) == i

\* extractAtos on such a page: one push per element of the NodeList
extractAtosOfLines(d) ==
  [ i \in DOMAIN d |->
      LET title == TrimmedText(d[i].title)
          description == TrimmedText(d[i].description)
          orgaoRaw == TrimmedText(RawHeadings[d[i].grp])
      IN  [index |-> OrdinalIndex(i), hits |-> d[i].hits,
           title |-> title,
           description |-> description,
           orgao |-> normalizeOrgao(orgaoRaw),
           tipo |-> extractTipoAto(LabelsIn(title)),
           ano |-> extractAno(title)] ]

\* the page before setup() has run
InitExtract ==
  /\ dom \in RawPages
  /\ allAtos = << >>
  /\ currentFilters = NoFilters
  /\ searchTimeout = 0
  /\ inputValue = << >>
  /\ selectValue = [k \in Categories |-> ""]
  /\ hiddenByFilter = {}
  /\ suborgHidden = {}
  /\ groupHidden = {}
  /\ resultInfo = [hasResultCount |-> FALSE,
                   msg |-> [cls |-> "", shown |-> 0, total |-> 0]]
  /\ activeMultiFilters = NoMultiFilters
  /\ lastOp = "load"
  /\ threw = FALSE
  /\ lastKey = << >>
  /\ bridge = "absent"
  /\ bridgeAtos = << >>
  /\ pfReady = FALSE
  /\ InitDeep
  /\ InitText
  /\ listenersAttached = FALSE
  /\ attachCount = 0
  /\ watcherPending = FALSE
  /\ InitListeners
  /\ InitPreview

\* setup(): extractAtos, createControlsUI, setupEventListeners,
\* updateResultCount()
setup ==
  /\ lastOp = "load"
  /\ allAtos' = extractAtosOfLines(dom)
  /\ resultInfo' = [hasResultCount |-> TRUE,
                    msg |-> ResultCountMessage(NumAtos, NumAtos)]
  /\ listenersAttached' = TRUE
  /\ attachCount' = 1
  /\ lastOp' = "setup"
  /\ threw' = FALSE
  /\ UNCHANGED << dom, currentFilters, searchTimeout, inputValue, selectValue,
                  hiddenByFilter, suborgHidden, groupHidden, bridge,
                  bridgeAtos, activeMultiFilters, lastKey, watcherPending >>
  /\ UNCHANGED << deepVars, textVars, previewVars, listenVars >>

\* an input event on the search box that setup created
InputAfterSetup(v) == attachCount > 0 /\ lastOp # "load" /\ SearchInput(v)

NextExtract ==
  \/ setup
  \/ \E v \in InputValues : InputAfterSetup(v)
  \/ SearchTimerFires

SpecExtract == InitExtract /\ [][NextExtract]_vars

(***************************************************************************)
(* getActiveFiltersObject applied to the multi-value sets the bridges can  *)
(* hold: any values of tipo and orgao, at most one year.                   *)
(***************************************************************************)
FilterSets ==
  { [tipo |-> t, orgao |-> o, ano |-> a] :
      t \in SUBSET {"Lei", "Decreto", "Lei Complementar"},
      o \in SUBSET {"Federal", "CNJ"},
      a \in {{}, {"2019"}, {"2020"}} }

InitFilterObject ==
  /\ dom = [i \in Atos |-> LineKinds[((i - 1) % 2) + 1]]
  /\ bridge = "assets"
  /\ bridgeAtos = << >>
  /\ allAtos = extractAtos(dom)
  /\ currentFilters = NoFilters
  /\ searchTimeout = 0
  /\ inputValue = << >>
  /\ selectValue = [k \in Categories |-> ""]
  /\ hiddenByFilter = {}
  /\ suborgHidden = {}
  /\ groupHidden = {}
  /\ resultInfo = [hasResultCount |-> TRUE,
                   msg |-> ResultCountMessage(NumAtos, NumAtos)]
  /\ activeMultiFilters \in FilterSets
  /\ lastOp = "setup"
  /\ threw = FALSE
  /\ lastKey = << >>
  /\ pfReady = FALSE
  /\ InitDeep
  /\ InitAux

CallGetActiveFiltersObject ==
  /\ fn = "none"
  /\ fn' = "getActiveFiltersObject"
  /\ fnOut' = getActiveFiltersObject(activeMultiFilters)
  /\ UNCHANGED << fnArg, filterVars, deepVars, watchVars, previewVars >>

NextFilterObject == CallGetActiveFiltersObject

SpecFilterObject == InitFilterObject /\ [][NextFilterObject]_vars

\* two characters that are one letter, whatever the case
SameLetter(x, y) ==
  x = y \/ \E k \in DOMAIN UpperCase : {x, y} = {UpperCase[k], LowerCase[k]}

\* text a occurs in text t, whatever the case of the letters
OccursIn(a, t) ==
  \E i \in 0..(Len(t) - Len(a)) : \A j \in 1..Len(a) : SameLetter(t[i + j], a[j])

\* C17: extractTipoAto returns 'Outro' iff no label of the vocabulary
\* occurs in the title; otherwise it returns a label that occurs, and never
\* a label that is contained in another label occurring in the title.
C17_MostSpecificLabel ==
  fn = "extractTipoAto" =>
    LET occurring == { k \in DOMAIN tipos : OccursIn(LabelText(tipos[k]), fnArg) }
    IN  /\ (fnOut = "Outro") <=> (occurring = {})
        /\ occurring # {} => \E k \in occurring : fnOut = tipos[k]
        /\ \A k \in occurring : \A j \in DOMAIN tipos :
             (j # k /\ OccursIn(LabelText(tipos[j]), LabelText(tipos[k])))
               => fnOut # tipos[j]

PatternYears(t) ==
  { y \in { SubSeq(t, r, r + 3) : r \in 1..(Len(t) - 3) } :
      /\ \A i \in 1..4 : y[i] \in Digits
      /\ \E r \in 1..(Len(t) - 3) :
           /\ SubSeq(t, r, r + 3) = y
           /\ \/ At(t, r - 1) \in {"(", "["} /\ At(t, r + 4) \in {")", "]"}
              \/ /\ At(t, r - 1) = "/"
                 /\ \E p \in 1..(r - 3) : \E q \in (p + 1)..(r - 2) :
                      /\ t[p] \in Markers
                      /\ \A i \in (p + 1)..(q - 1) : t[i] = " "
                      /\ \A i \in q..(r - 2) : t[i] \in Digits \cup {"."} }

BareYearPositions(t) ==
  { r \in 1..(Len(t) - 3) :
      /\ \A i \in r..(r + 3) : t[i] \in Digits
      /\ <<t[r], t[r + 1]>> \in { <<"1", "9">>, <<"2", "0">> }
      /\ At(t, r - 1) \notin WordChars
      /\ At(t, r + 4) \notin WordChars }

\* C18: extractAno returns a year that follows a numbering marker and a
\* slash or stands in parentheses or brackets whenever the title has one;
\* otherwise the first bare token 19xx or 20xx; otherwise the empty string.
\* What it returns is empty or four digits.
C18_YearByPatternThenBare ==
  fn = "extractAno" =>
    /\ fnOut = << >> \/ (Len(fnOut) = 4 /\ \A i \in 1..4 : fnOut[i] \in Digits)
    /\ IF PatternYears(fnArg) # {} THEN fnOut \in PatternYears(fnArg)
       ELSE IF BareYearPositions(fnArg) # {}
       THEN LET r == CHOOSE x \in BareYearPositions(fnArg) :
                       \A y \in BareYearPositions(fnArg) : x <= y
            IN  fnOut = SubSeq(fnArg, r, r + 3)
       ELSE fnOut = << >>

C18_Witness ==
  /\ fn = "extractAno"
  /\ fnArg = <<"P", "a", "r", "a", "n", "a", " ", "2", "0", "2", "1", " ", "n", "^o", " ", "4", "5", "/", "1", "9", "8", "5">>
  /\ fnOut = <<"1", "9", "8", "5">>

\* C19: normalizing what normalizeOrgao returned returns it unchanged.
C19_NormalizeIdempotent ==
  fn = "normalizeOrgao twice" => fnOut = fnArg

C19_Witness ==
  /\ fn = "normalizeOrgao twice"
  /\ fnArg = txtFederal
  /\ fnOut = txtFederal

\* C20: normalizeOrgao returns 'Federal' for a text in which 'federal'
\* occurs (whatever the case), otherwise 'CNJ' for 'cnj', otherwise 'TJPR'
\* for 'tjpr', 'parana' with or without its accent, and every other text as
\* it is; 'Tribunal de Justica do Parana' gives 'TJPR'.
C20_NormalizeByToken ==
  fn = "normalizeOrgao" =>
    /\ fnOut =
         IF OccursIn(txtFederal, fnArg) THEN txtFederal
         ELSE IF OccursIn(txtCNJ, fnArg) THEN txtCNJ
         ELSE IF \/ OccursIn(txtTJPR, fnArg)
                 \/ OccursIn(<<"P", "a", "r", "a", "n", "a'">>, fnArg)
                 \/ OccursIn(<<"P", "a", "r", "a", "n", "a">>, fnArg)
         THEN txtTJPR
         ELSE fnArg
    /\ fnArg = <<"T", "r", "i", "b", "u", "n", "a", "l", " ", "d", "e", " ", "J", "u", "s", "t", "i", "c,", "a", " ", "d", "o", " ", "P", "a", "r", "a", "n", "a'">> => fnOut = txtTJPR

C20_Witness ==
  /\ fn = "normalizeOrgao"
  /\ fnArg = <<"T", "r", "i", "b", "u", "n", "a", "l", " ", "d", "e", " ", "J", "u", "s", "t", "i", "c,", "a", " ", "d", "o", " ", "P", "a", "r", "a", "n", "a'">>
  /\ fnOut = txtTJPR

\* C12: a change event on a managed select runs the bridge's handler and
\* not the filter bar's: the step leaves the filter bar's state, the
\* category's single value included, as it was.
C12_InterceptionShieldsPrimary ==
  [][ lastOp' \in {"handleMultiFilterChange", "handleMultiFilterClear"}
        => currentFilters' = currentFilters ]_vars

C12_Witness ==
  /\ lastOp = "handleMultiFilterChange"
  /\ activeMultiFilters.tipo = {"Lei"}
  /\ currentFilters.tipo = ""
  /\ selectValue.tipo = ""

\* C15: after a click on a badge's remove button the shown records are
\* those matching the remaining sets and the result count is their number.
C15_BadgeRemovalRecomputes ==
  lastOp = "badgeRemove" =>
    /\ Shown = { i \in Atos : \A k \in Categories :
                   activeMultiFilters[k] = {} \/ bridgeAtos[i][k] \in activeMultiFilters[k] }
    /\ resultInfo.msg.shown = Cardinality(Shown)
    /\ resultInfo.msg.cls = "result-count-all" <=> Cardinality(Shown) = NumAtos

\* C16: no multi-value set ever holds the empty value or a 'Todos' value,
\* and the handler that was given such a value leaves its category's set
\* empty.
C16_NoSentinelInSets ==
  /\ [](\A k \in Categories : \A v \in activeMultiFilters[k] :
          v # "" /\ v \notin TodosValues)
  /\ [][ \A k \in multiSelectFilters :
           (lastOp' = "handleMultiFilterClear" /\ selectValue[k] # ""
              /\ selectValue'[k] = "")
             => activeMultiFilters'[k] = {} ]_vars

C16_Witness ==
  /\ lastOp = "handleMultiFilterClear"
  /\ activeMultiFilters.tipo = {}
  /\ activeMultiFilters.orgao # {}
  /\ currentFilters.tipo # ""

\* C13: whenever no watcher callback is pending, the filter bar's handlers
\* are attached to the controls that are in the document: after the
\* controls were recreated and the watcher has run, input on the new
\* controls is heard.
C13_ReattachedAfterRecreation ==
  ~watcherPending => attachCount >= 1

\* C11: when a value is selected on a managed select a second time, with
\* no other selection or removal on that category since the first, the
\* category's set is what it was before the first selection.
C11_SelectTwiceRestores ==
  twice.made => activeMultiFilters[twice.cat] = twice.before

ValuesOf(filters, k) == IF k \in DOMAIN filters THEN filters[k].values ELSE {}

\* C14: a query sent to the index carries the search text of that moment
\* and, as its filters, exactly the values shown as badges and the value of
\* the year select.
C14_ForwardedFiltersAreCurrent ==
  sent.made =>
    /\ sent.query = sent.text
    /\ \A k \in multiSelectFilters : ValuesOf(sent.filters, k) = sent.badges[k]
    /\ ValuesOf(sent.filters, "ano") = IF sent.ano = "" THEN {} ELSE {sent.ano}

\* C21: while the overlay body shows that the index could not be loaded or
\* that the query failed, the count in the overlay header is zero (empty),
\* not the count of an earlier search.
C21_FailureClearsCount ==
  overlayBody.kind \in {"load-error", "search-error"} => overlayCount.shown = 0

\* C22: every operation of the filter bar (applyFilters after a search
\* input or a year change, resetFilters) ends without an exception, with
\* the #resultCount element still in the document, and with each sub-group
\* and group hidden iff all its records are hidden.
C22_FilterBarSurvivesBridge ==
  (RanApplyFilters \/ lastOp = "resetFilters") =>
    /\ ~threw
    /\ resultInfo.hasResultCount
    /\ \A s \in Suborgs : s \in suborgHidden <=> LinesOfSuborg(s) \cap Shown = {}
    /\ \A g \in Groups : g \in groupHidden <=> LinesOfGroup(g) \cap Shown = {}

\* C23: once setup has run, and after every later operation, there is one
\* record per line, in the order of the lines, whose index is the position
\* of its line; its title, description and issuing body are the trimmed
\* texts of the line's parts, empty for a part that is missing, and no
\* handler has ended by an exception.
C23_OneRecordPerLine ==
  lastOp # "load" =>
    /\ DOMAIN allAtos = Atos
    /\ \A i \in Atos :
         /\ allAtos[i].index = i
         /\ allAtos[i].hits = dom[i].hits
         /\ allAtos[i].title =
              IF dom[i].title.has THEN Trim(dom[i].title.text) ELSE << >>
         /\ allAtos[i].description =
              IF dom[i].description.has THEN Trim(dom[i].description.text)
              ELSE << >>
         /\ ~RawHeadings[dom[i].grp].has => allAtos[i].orgao = << >>
         /\ ~dom[i].title.has => allAtos[i].tipo = "Outro" /\ allAtos[i].ano = << >>
    /\ ~threw

C23_Witness ==
  /\ lastOp = "searchTimer"
  /\ \E i, j, k \in Atos :
       /\ ~dom[i].title.has /\ allAtos[i].title = << >>
       /\ ~RawHeadings[dom[j].grp].has /\ allAtos[j].orgao = << >>
       /\ dom[k].title.has /\ dom[k].description.has
       /\ allAtos[k].title # << >> /\ allAtos[k].ano # << >>
       /\ allAtos[k].orgao = txtFederal

C25_WhitespaceQueryIsEmpty ==
  (lastOp = "searchTimer" /\ \A p \in DOMAIN inputValue : inputValue[p] = " ") =>
    /\ currentFilters.search = << >>
    /\ Shown = { i \in Atos : \A cat \in Categories :
                   currentFilters[cat] = "" \/ allAtos[i][cat] = currentFilters[cat] }

C25_Witness ==
  /\ lastOp = "searchTimer"
  /\ inputValue = <<" ">>
  /\ currentFilters.tipo # ""
  /\ Shown # {}
  /\ Shown # Atos

\* C26: while the applied query is not empty, every shown record is one the
\* index returns for that query.
C26_ShownWithinIndexResults ==
  currentFilters.search # << >> =>
    Shown \subseteq { i \in Atos : currentFilters.search \in allAtos[i].hits }

C26_Witness ==
  /\ lastOp = "handleFilterChange"
  /\ currentFilters.search # << >>
  /\ \E cat \in Categories : currentFilters[cat] # ""
  /\ Shown # {}
  /\ Shown # { i \in Atos : currentFilters.search \in allAtos[i].hits }
  /\ \E i \in Atos :
       /\ currentFilters.search \notin allAtos[i].hits
       /\ \A cat \in Categories :
            currentFilters[cat] = "" \/ allAtos[i][cat] = currentFilters[cat]

\* C28: no target ever carries a handler of the bridge more than once and
\* no attachment is made on a target that carries the handler; an input
\* event runs the input handler at most once; after a watcher callback the
\* flag is set and the search box in the document carries the handler.
C28_NoDoubleAttach ==
  /\ ~redundant
  /\ attached.button <= 1
  /\ attached.document <= 1
  /\ \A e \in ElementIds : attached.inputs[e] <= 1 /\ attached.blocks[e] <= 1
  /\ fired <= 1
  /\ lastOp = "listenerWatcherCallback" =>
       pfListenersAttached /\ attached.inputs[page.input] = 1

C28_Witness ==
  /\ lastOp = "listenerInput"
  /\ fired = 1
  /\ page.input > 1
  /\ page.block = 1
  /\ currentSearchInput = page.input
  /\ attached.blocks[page.block] = 1

\* C29: once no preview timer is armed and no request waits, the badge of a
\* query of two characters or more holds the count a request returned, unless
\* the request for it has just failed; also when the same query comes back
\* after a short one or after a failure
C29_BadgeAtRest ==
  ( /\ previewTimer = 0
    /\ previews = << >>
    /\ Len(Trim(inputValue)) >= 2
    /\ lastOp \in {"updateBadge", "updateBadgeCached", "previewInitFails",
                   "previewSearchResolves", "previewSearchFails"} )
  => \/ badgeBy = "result"
     \/ lastOp \in {"previewInitFails", "previewSearchFails"}

\* C30: the answer to a request older than one already answered leaves the
\* badge as the newer answer set it
C30_OlderAnswerIgnored ==
  [][ \A c \in DOMAIN previews :
        ( /\ previews[c].stale
          /\ previews' = Answered(previews, c)
          /\ lastOp' \in {"previewInitFails", "previewSearchResolves",
                          "previewSearchFails"} )
        => badgeCount' = badgeCount ]_vars

\* C31: init of the index is not under way twice at once: a call of init
\* that succeeds finds pfReady still false, because no other call of
\* ensurePagefind invoked init while this one was pending
C31_OneInitAtATime ==
  [][ \A c \in DOMAIN previews :
        ( /\ previews[c].phase = "init"
          /\ Len(previews') = Len(previews)
          /\ previews'[c].phase = "search" )
        => ~pfReady ]_vars

\* C32: once the bridge has extracted its records, every line has the same
\* orgao, tipo and ano in the bridge's records as in the filter bar's, so a
\* value offered in a select picks the same lines in both
C32_ExtractionsAgree ==
  bridgeAtos # << >> =>
    /\ \A i \in Atos : \A k \in Categories : bridgeAtos[i][k] = allAtos[i][k]
    /\ \A k \in multiSelectFilters : \A v \in Options(k) :
         { i \in Atos : bridgeAtos[i][k] = v } = { i \in Atos : allAtos[i][k] = v }

\* C33: after the bridge has intercepted a change on a managed select and
\* reset it, the filter bar holds no single value for a category whose
\* select shows the neutral option, also when the select was changed
\* before the bridge had booted
C33_NoHiddenSingleValue ==
  (bridge = "booted" /\ lastOp \in {"handleMultiFilterChange", "handleMultiFilterClear"}) =>
    \A k \in multiSelectFilters : selectValue[k] = "" => currentFilters[k] = ""

\* C34: when the reset button is clicked while a debounce callback is
\* pending and that callback runs next, it applies the empty query: every
\* record and container stays displayed and the message is 'all shown'
C34_ResetOutlivesPendingTimer ==
  [][ (lastOp = "resetFilters" /\ searchTimeout > 0 /\ lastOp' = "searchTimer")
        => /\ currentFilters' = NoFilters
           /\ hiddenByFilter' = {}
           /\ suborgHidden' = {}
           /\ groupHidden' = {}
           /\ resultInfo'.msg = ResultCountMessage(NumAtos, NumAtos)
           /\ ~threw' ]_vars

C34_Witness ==
  /\ lastOp = "searchTimer"
  /\ lastKey = <<"b", " ">>
  /\ inputValue = << >>
  /\ selectValue = [k \in Categories |-> ""]
  /\ currentFilters = NoFilters
  /\ hiddenByFilter = {}
  /\ searchTimeout = 0

\* C35: a change of the year select, and the preview update that runs when
\* the debounce armed by it or by typing in the search box has elapsed,
\* leave the tipo and orgao sets as they were
C35_YearAndPreviewKeepSets ==
  [][ ( \/ (bridge = "assets" /\ lastOp' = "handleFilterChange")
        \/ ( /\ lastOp \in {"handleFilterChange", "previewInput"}
             /\ lastOp' \in {"updateBadge", "updateBadgeCached"} ) )
        => \A k \in multiSelectFilters :
             activeMultiFilters'[k] = activeMultiFilters[k] ]_vars

====
